---- MODULE Spec2Model ----
(***************************************************************************)
(* Model of the Airbnb market scraping pipeline: runScraping (main.go) and *)
(* the detail worker pool with retry (scraper/airbnb/detail_scraper.go).   *)
(***************************************************************************)
EXTENDS Integers, Sequences, FiniteSets, TLC

\* ------------------------------------------------------------------ bounds
MaxLocations == 2

\* ------------------------------------------------------- program constants
DefaultWorkers == 3
DefaultRetries == 3

\* -------------------------------------------------------------- input sets
\* Raw listing URLs the collection stage may return: the empty URL, two
\* distinct listings, and a tracking-parameter variant of the first one.
RawURLs == {"", "a", "a?utm=x", "b"}

\* Configured max_workers / max_retries (0 is the unset value of a Go int).
CfgMaxWorkers == {0, 1, 2}
CfgMaxRetries == {0, 1, 2}

WorkerIds == 1..DefaultWorkers

\* ------------------------------------------------------------------- state
VARIABLES
    cfg,             \* config.ScraperConfig: MaxWorkers, MaxRetries
    pc,              \* position of runScraping
    locations,       \* result of ScrapeHomepageLocations
    locIdx,          \* loop index of the collection loop (1-based)
    allRawListings,  \* accumulated listings
    totalProperties, \* running count of collected listings
    urls,            \* normalized URLs handed to ScrapeDetailsWithWorkers
    numWorkers,      \* effective pool size
    spawned,         \* workers started so far
    sendIdx,         \* index of the next URL the producer sends
    urlChan,         \* buffered channel contents
    chanClosed,      \* close(urlChan) has run
    wg,              \* sync.WaitGroup counter
    resultsMux,      \* 0 when free, else the worker holding the mutex
    results,         \* map[string]*DetailResult
    wpc,             \* position of each worker goroutine
    wurl,            \* url being processed by each worker
    attempt,         \* loop variable of scrapeDetailWithRetry per worker
    wresult,         \* result returned by scrapeDetailWithRetry per worker
    savedCount,      \* value returned by NormalizeAndSave
    stepErr,         \* which of save/export/analytics reported an error
    invoked,         \* history: collaborator operations invoked in this run
    fetched,         \* history: what ScrapeListings returned per location
    calls,           \* history: ScrapeDetailPage invocations of the current task
    fails,           \* history: failed invocations of the current task
    writes,          \* history: number of stores per key of results
    lastTask,        \* history: calls/fails of the task that wrote each key
    sessions,        \* open browser sessions, each tagged with worker and attempt
    delays,          \* history: retry delays waited in the current task
    reportedLocations \* the location count printed by the summary lines

orchVars == <<pc, locations, locIdx, allRawListings, totalProperties, urls,
              savedCount, stepErr, fetched>>
poolVars == <<numWorkers, spawned, sendIdx, urlChan, chanClosed, wg>>
workVars == <<resultsMux, results, wpc, wurl, attempt, wresult, calls, fails,
              writes, lastTask>>
vars == <<cfg, orchVars, poolVars, workVars, invoked, sessions, delays,
          reportedLocations>>

\* ----------------------------------------------------------------- helpers
NoError == "nil"

\* utils.NormalizeURL: whitespace / tracking-parameter insensitive key.
NormalizeURL(u) == IF u = "a?utm=x" THEN "a" ELSE u

\* A RawListing as the collection stage returns it for a location.
RawListing(u, loc) ==
    [URL |-> u, Title |-> "title", PriceText |-> "$120", RatingText |-> "4.8",
     Location |-> loc, Bedrooms |-> 0, Bathrooms |-> 0, Guests |-> 0]

\* What ScrapeListings can return for location loc: an error with no
\* listings, an empty page, or a one-listing page.
ListingOutcomes(loc) ==
    {[err |-> TRUE, listings |-> <<>>], [err |-> FALSE, listings |-> <<>>]}
    \cup {[err |-> FALSE, listings |-> <<RawListing(u, loc)>>] : u \in RawURLs}

\* The detail page of a listing as the page's script reports it; bathrooms
\* is a float kept here in halves (3 = 1.5 bathrooms).
PageOf(url) ==
    IF url = "a" THEN [bedrooms |-> 1, bathHalves |-> 3, guests |-> 2]
    ELSE [bedrooms |-> 2, bathHalves |-> 5, guests |-> 4]

EmptyMap == [k \in {} |-> 0]
Put(m, k, v) == [x \in DOMAIN m \cup {k} |-> IF x = k THEN v ELSE m[x]]
Range(s) == {s[i] : i \in DOMAIN s}


\* -------------------------------------------------- pure parts of the code
\* Variant of EffectiveWorkers that ignores the configured pool size.
EffectiveWorkersIgnoresConfig(n) == DefaultWorkers

\* numWorkers := cfg.MaxWorkers; if numWorkers <= 0 { numWorkers = 3 }
EffectiveWorkers(n) == IF n <= 0 THEN DefaultWorkers ELSE n

\* maxRetries := cfg.MaxRetries; if maxRetries <= 0 { maxRetries = 3 }
EffectiveRetries(n) == IF n <= 0 THEN DefaultRetries ELSE n

\* Variant of AfterDiscovery without the empty-result check.
AfterDiscoveryNoCheck(locs) == "collect"

\* if len(locations) == 0 { return }
AfterDiscovery(locs) == IF Len(locs) = 0 THEN "done" ELSE "collect"

\* Variant of SkipLocation that leaves the loop (break instead of continue).
SkipLocationBreaks(i, n) == n + 1

\* `continue` in the collection loop: go on with the next location.
SkipLocation(i, n) == i + 1

\* The location count of the summary lines: len(locations).
LocationsReported(locs) == Len(locs)

\* Variant of AfterCollection without the nothing-collected check.
AfterCollectionNoCheck(total) == "urls"

\* if totalProperties == 0 { return }
AfterCollection(total) == IF total = 0 THEN "done" ELSE "urls"

\* urls: the normalized URL of every listing with a non-empty URL, in order.
RECURSIVE BuildURLs(_)
BuildURLs(listings) ==
    IF listings = <<>> THEN <<>>
    ELSE IF Head(listings).URL # ""
         THEN <<NormalizeURL(Head(listings).URL)>> \o BuildURLs(Tail(listings))
         ELSE BuildURLs(Tail(listings))

\* Variant of ChanCap with a fixed one-slot buffer.
ChanCapOne(us) == 1

\* urlChan := make(chan string, len(urls))
ChanCap(us) == Len(us)

\* Variant of SendDone that stops one URL early.
SendDoneOneEarly(i, us) == i >= Len(us)

\* for _, url := range urls: the producer loop is over once i passes the end.
SendDone(i, us) == i > Len(us)

\* Variant of WgDone that forgets to decrement.
WgDoneMissing(c) == c

\* defer wg.Done()
WgDone(c) == c - 1

\* Variant of WaitReleased without the join barrier.
WaitReleasedAtOnce(c) == TRUE

\* wg.Wait() returns when the counter is zero.
WaitReleased(c) == c = 0

\* Variant of LoopContinues with a strict comparison.
LoopContinuesStrict(a, m) == a < m

\* for attempt := 1; attempt <= maxRetries; attempt++
LoopContinues(a, m) == a <= m

\* Variant of SleepsBeforeRetry that waits after every failed attempt.
SleepsAfterEveryFailure(a, m) == TRUE

\* if attempt < maxRetries { ...; time.Sleep(...) }
SleepsBeforeRetry(a, m) == a < m

\* browserCtx, cancel := s.createStealthContext(ctx): a session of its own
\* for attempt a of worker w.
OpenSession(ss, w, a) == ss \cup {[worker |-> w, attempt |-> a]}

\* Variant of CloseSession that tears the session down on success only.
CloseSessionOnSuccessOnly(ss, w, failed) ==
    IF failed THEN ss ELSE {x \in ss : x.worker # w}

\* defer cancel() (twice): both contexts of the call are cancelled on every
\* return path of ScrapeDetailPage.
CloseSession(ss, w, failed) == {x \in ss : x.worker # w}

\* result of ScrapeDetailPage on success (bathrooms: int(float64)).
SuccessResult(url, page) ==
    [URL |-> url, Bedrooms |-> page.bedrooms,
     Bathrooms |-> page.bathHalves \div 2, Guests |-> page.guests,
     Error |-> NoError]

\* Variant of FailureResult that leaves Error unset.
FailureResultNoError(url) ==
    [URL |-> url, Bedrooms |-> 0, Bathrooms |-> 0, Guests |-> 0,
     Error |-> NoError]

\* &DetailResult{URL: url, Error: fmt.Errorf("failed after %d retries ...")}
FailureResult(url) ==
    [URL |-> url, Bedrooms |-> 0, Bathrooms |-> 0, Guests |-> 0,
     Error |-> "failed after retries"]

\* position of a worker after it has stored a result: back to the range loop.
AfterStore(r) == "recv"

\* Variant of AfterSave that returns from the run when the save failed.
AfterSaveAborts(ok) == IF ok THEN "export" ELSE "done"

\* After NormalizeAndSave the run goes on to the export, error or not.
AfterSave(ok) == "export"

\* After ExportToCSV the run goes on to the analytics, error or not.
AfterExport(ok) == "analytics"

\* Variant of MergeKey that always looks up the first listing's key.
MergeKeyFirst(listings, i) == NormalizeURL(listings[1].URL)

\* Variant of MergeKey that looks up the raw URL, not the normalized one.
MergeKeyRaw(listings, i) == listings[i].URL

\* normalizedURL := utils.NormalizeURL(allRawListings[i].URL)
MergeKey(listings, i) == NormalizeURL(listings[i].URL)

\* Variant of Merge that adds the detail values to the listing's own.
MergeAccumulates(listings, details) ==
    [i \in DOMAIN listings |->
        LET k == NormalizeURL(listings[i].URL) IN
        IF k \in DOMAIN details /\ details[k].Error = NoError
        THEN [listings[i] EXCEPT !.Bedrooms = @ + details[k].Bedrooms,
                                 !.Bathrooms = @ + details[k].Bathrooms,
                                 !.Guests = @ + details[k].Guests]
        ELSE listings[i]]

\* Variant of Merge that keeps only the listings it could enrich.
MergeDropsUnmatched(listings, details) ==
    LET keep == SelectSeq(listings,
                    LAMBDA l : /\ NormalizeURL(l.URL) \in DOMAIN details
                               /\ details[NormalizeURL(l.URL)].Error = NoError)
    IN [i \in DOMAIN keep |->
           LET k == NormalizeURL(keep[i].URL) IN
           [keep[i] EXCEPT !.Bedrooms = details[k].Bedrooms,
                           !.Bathrooms = details[k].Bathrooms,
                           !.Guests = details[k].Guests]]

\* Variant of Merge that also writes the normalized URL back to the listing.
MergeNormalizesURL(listings, details) ==
    [i \in DOMAIN listings |->
        LET k == NormalizeURL(listings[i].URL) IN
        IF k \in DOMAIN details /\ details[k].Error = NoError
        THEN [listings[i] EXCEPT !.URL = k,
                                 !.Bedrooms = details[k].Bedrooms,
                                 !.Bathrooms = details[k].Bathrooms,
                                 !.Guests = details[k].Guests]
        ELSE listings[i]]

\* the merge loop of runScraping
Merge(listings, details) ==
    [i \in DOMAIN listings |->
        LET k == MergeKey(listings, i) IN
        IF k \in DOMAIN details /\ details[k].Error = NoError
        THEN [listings[i] EXCEPT !.Bedrooms = details[k].Bedrooms,
                                 !.Bathrooms = details[k].Bathrooms,
                                 !.Guests = details[k].Guests]
        ELSE listings[i]]

\* -------------------------------------------------------------------- Init
Init ==
    /\ cfg \in [MaxWorkers : CfgMaxWorkers, MaxRetries : CfgMaxRetries]
    /\ pc = "discover"
    /\ locations = <<>>
    /\ locIdx = 1
    /\ allRawListings = <<>>
    /\ totalProperties = 0
    /\ urls = <<>>
    /\ numWorkers = 0
    /\ spawned = 0
    /\ sendIdx = 1
    /\ urlChan = <<>>
    /\ chanClosed = FALSE
    /\ wg = 0
    /\ resultsMux = 0
    /\ results = EmptyMap
    /\ wpc = [w \in WorkerIds |-> "idle"]
    /\ wurl = [w \in WorkerIds |-> ""]
    /\ attempt = [w \in WorkerIds |-> 0]
    /\ wresult = [w \in WorkerIds |-> FailureResult("")]
    /\ savedCount = 0
    /\ stepErr = {}
    /\ invoked = {}
    /\ fetched = <<>>
    /\ calls = [w \in WorkerIds |-> 0]
    /\ fails = [w \in WorkerIds |-> 0]
    /\ writes = EmptyMap
    /\ lastTask = EmptyMap
    /\ sessions = {}
    /\ delays = [w \in WorkerIds |-> 0]
    /\ reportedLocations = -1

\* ------------------------------------------------- runScraping, stages 1-2
\* ScrapeHomepageLocations fails: log.Fatal ends the process.
DiscoverFatal ==
    /\ pc = "discover"
    /\ pc' = "fatal"
    /\ UNCHANGED <<cfg, sessions, delays,
                   reportedLocations,
                   locations, locIdx, allRawListings, totalProperties,
                   urls, savedCount, stepErr, fetched, poolVars, workVars,
                   invoked>>

\* ScrapeHomepageLocations returns n locations (possibly none).
Discover ==
    /\ pc = "discover"
    /\ \E n \in 0..MaxLocations :
          /\ locations' = [i \in 1..n |-> i]
          /\ pc' = AfterDiscovery(locations')
    /\ UNCHANGED <<cfg, sessions, delays,
                   reportedLocations,
                   locIdx, allRawListings, totalProperties, urls,
                   savedCount, stepErr, fetched, poolVars, workVars, invoked>>

\* One iteration of the collection loop.
CollectLocation ==
    /\ pc = "collect"
    /\ locIdx <= Len(locations)
    /\ \E out \in ListingOutcomes(locations[locIdx]) :
          /\ fetched' = Append(fetched, out)
          /\ IF out.err \/ Len(out.listings) = 0
             THEN /\ locIdx' = SkipLocation(locIdx, Len(locations))
                  /\ UNCHANGED <<allRawListings, totalProperties>>
             ELSE /\ allRawListings' = allRawListings \o out.listings
                  /\ totalProperties' = totalProperties + Len(out.listings)
                  /\ locIdx' = locIdx + 1
    /\ invoked' = invoked \cup {"ScrapeListings"}
    /\ UNCHANGED <<cfg, sessions, delays,
                   reportedLocations,
                   pc, locations, urls, savedCount, stepErr, poolVars,
                   workVars>>

\* The loop is over: summary line, then return when nothing was collected.
CollectExit ==
    /\ pc = "collect"
    /\ locIdx > Len(locations)
    /\ pc' = AfterCollection(totalProperties)
    /\ reportedLocations' = LocationsReported(locations)
    /\ UNCHANGED <<cfg, sessions, delays,
                   locations, locIdx, allRawListings, totalProperties,
                   urls, savedCount, stepErr, fetched, poolVars, workVars,
                   invoked>>

\* ------------------------------------------------------ stage 3: the pool
\* runScraping builds the URL list for the detail stage.
BuildURLList ==
    /\ pc = "urls"
    /\ urls' = BuildURLs(allRawListings)
    /\ pc' = "pool"
    /\ UNCHANGED <<cfg, sessions, delays,
                   reportedLocations,
                   locations, locIdx, allRawListings, totalProperties,
                   savedCount, stepErr, fetched, poolVars, workVars, invoked>>

\* ScrapeDetailsWithWorkers: map, mutex, channel and pool size are set up.
StartPool ==
    /\ pc = "pool"
    /\ results' = EmptyMap
    /\ resultsMux' = 0
    /\ urlChan' = <<>>
    /\ chanClosed' = FALSE
    /\ wg' = 0
    /\ spawned' = 0
    /\ sendIdx' = 1
    /\ numWorkers' = EffectiveWorkers(cfg.MaxWorkers)
    /\ pc' = IF 0 < numWorkers' THEN "spawn" ELSE "send"
    /\ invoked' = invoked \cup {"ScrapeDetailsWithWorkers"}
    /\ UNCHANGED <<cfg, sessions, delays,
                   reportedLocations,
                   locations, locIdx, allRawListings, totalProperties,
                   urls, savedCount, stepErr, fetched, wpc, wurl, attempt,
                   wresult, calls, fails, writes, lastTask>>

\* wg.Add(1); go func(workerID) {...}(i + 1)
SpawnWorker ==
    /\ pc = "spawn"
    /\ spawned < numWorkers
    /\ wg' = wg + 1
    /\ spawned' = spawned + 1
    /\ wpc' = [wpc EXCEPT ![spawned + 1] = "recv"]
    /\ pc' = IF spawned + 1 < numWorkers THEN "spawn" ELSE "send"
    /\ UNCHANGED <<cfg, sessions, delays,
                   reportedLocations,
                   locations, locIdx, allRawListings, totalProperties,
                   urls, savedCount, stepErr, fetched, numWorkers, sendIdx,
                   urlChan, chanClosed, resultsMux, results, wurl, attempt,
                   wresult, calls, fails, writes, lastTask, invoked>>

\* urlChan <- url (the channel's capacity is len(urls))
SendURL ==
    /\ pc = "send"
    /\ ~SendDone(sendIdx, urls)
    /\ Len(urlChan) < ChanCap(urls)
    /\ urlChan' = Append(urlChan, urls[sendIdx])
    /\ sendIdx' = sendIdx + 1
    /\ UNCHANGED <<cfg, sessions, delays,
                   reportedLocations,
                   orchVars, numWorkers, spawned, chanClosed, wg,
                   workVars, invoked>>

\* close(urlChan)
CloseChan ==
    /\ pc = "send"
    /\ SendDone(sendIdx, urls)
    /\ chanClosed' = TRUE
    /\ pc' = "wait"
    /\ UNCHANGED <<cfg, sessions, delays,
                   reportedLocations,
                   locations, locIdx, allRawListings, totalProperties,
                   urls, savedCount, stepErr, fetched, numWorkers, spawned,
                   sendIdx, urlChan, wg, workVars, invoked>>

\* wg.Wait(); return results
WaitWorkers ==
    /\ pc = "wait"
    /\ WaitReleased(wg)
    /\ pc' = "merge"
    /\ UNCHANGED <<cfg, sessions, delays,
                   reportedLocations,
                   locations, locIdx, allRawListings, totalProperties,
                   urls, savedCount, stepErr, fetched, poolVars, workVars,
                   invoked>>


\* ----------------------------------------------------- worker goroutines
\* for url := range urlChan: a URL is received; scrapeDetailWithRetry starts.
WorkerRecv(w) ==
    /\ wpc[w] = "recv"
    /\ urlChan # <<>>
    /\ wurl' = [wurl EXCEPT ![w] = Head(urlChan)]
    /\ urlChan' = Tail(urlChan)
    /\ attempt' = [attempt EXCEPT ![w] = 1]
    /\ calls' = [calls EXCEPT ![w] = 0]
    /\ fails' = [fails EXCEPT ![w] = 0]
    /\ IF LoopContinues(1, EffectiveRetries(cfg.MaxRetries))
       THEN /\ wpc' = [wpc EXCEPT ![w] = "attempt"]
            /\ UNCHANGED wresult
       ELSE /\ wpc' = [wpc EXCEPT ![w] = "lock"]
            /\ wresult' = [wresult EXCEPT ![w] = FailureResult(Head(urlChan))]
    /\ delays' = [delays EXCEPT ![w] = 0]
    /\ UNCHANGED <<cfg, sessions, reportedLocations,
                   orchVars, numWorkers, spawned, sendIdx, chanClosed, wg,
                   resultsMux, results, writes, lastTask, invoked>>

\* The channel is closed and drained: the range loop ends, wg.Done() runs.
WorkerExit(w) ==
    /\ wpc[w] = "recv"
    /\ urlChan = <<>>
    /\ chanClosed
    /\ wpc' = [wpc EXCEPT ![w] = "done"]
    /\ wg' = WgDone(wg)
    /\ UNCHANGED <<cfg, sessions, delays,
                   reportedLocations,
                   orchVars, numWorkers, spawned, sendIdx, urlChan,
                   chanClosed, resultsMux, results, wurl, attempt, wresult,
                   calls, fails, writes, lastTask, invoked>>

\* ScrapeDetailPage is entered: a browser session is created for the fetch.
BeginFetch(w) ==
    /\ wpc[w] = "attempt"
    /\ wpc' = [wpc EXCEPT ![w] = "fetching"]
    /\ calls' = [calls EXCEPT ![w] = @ + 1]
    /\ sessions' = OpenSession(sessions, w, attempt[w])
    /\ UNCHANGED <<cfg, delays, reportedLocations,
                   orchVars, poolVars, resultsMux, results, wurl, attempt,
                   wresult, fails, writes, lastTask, invoked>>

\* ScrapeDetailPage returns (result, nil): scrapeDetailWithRetry returns it.
FetchOk(w) ==
    /\ wpc[w] = "fetching"
    /\ wresult' = [wresult EXCEPT ![w] = SuccessResult(wurl[w], PageOf(wurl[w]))]
    /\ wpc' = [wpc EXCEPT ![w] = "lock"]
    /\ sessions' = CloseSession(sessions, w, FALSE)
    /\ UNCHANGED <<cfg, delays, reportedLocations,
                   orchVars, poolVars, resultsMux, results, wurl, attempt,
                   calls, fails, writes, lastTask, invoked>>

\* The rest of one loop iteration after a failed attempt, from value a of
\* the loop variable: attempt++, then the loop test.
NextIteration(w, a) ==
    /\ attempt' = [attempt EXCEPT ![w] = a + 1]
    /\ IF LoopContinues(a + 1, EffectiveRetries(cfg.MaxRetries))
       THEN /\ wpc' = [wpc EXCEPT ![w] = "attempt"]
            /\ UNCHANGED wresult
       ELSE /\ wpc' = [wpc EXCEPT ![w] = "lock"]
            /\ wresult' = [wresult EXCEPT ![w] = FailureResult(wurl[w])]

\* ScrapeDetailPage returns an error (navigation, timeout or JSON parsing).
FetchFail(w) ==
    /\ wpc[w] = "fetching"
    /\ fails' = [fails EXCEPT ![w] = @ + 1]
    /\ IF SleepsBeforeRetry(attempt[w], EffectiveRetries(cfg.MaxRetries))
       THEN /\ wpc' = [wpc EXCEPT ![w] = "sleep"]
            /\ UNCHANGED <<attempt, wresult>>
       ELSE NextIteration(w, attempt[w])
    /\ sessions' = CloseSession(sessions, w, TRUE)
    /\ UNCHANGED <<cfg, delays, reportedLocations,
                   orchVars, poolVars, resultsMux, results, wurl, calls,
                   writes, lastTask, invoked>>

\* time.Sleep(RetryDelayMs) is over.
RetryDelayOver(w) ==
    /\ wpc[w] = "sleep"
    /\ NextIteration(w, attempt[w])
    /\ delays' = [delays EXCEPT ![w] = @ + 1]
    /\ UNCHANGED <<cfg, sessions, reportedLocations,
                   orchVars, poolVars, resultsMux, results, wurl, calls,
                   fails, writes, lastTask, invoked>>

\* resultsMux.Lock()
WorkerLock(w) ==
    /\ wpc[w] = "lock"
    /\ resultsMux = 0
    /\ resultsMux' = w
    /\ wpc' = [wpc EXCEPT ![w] = "store"]
    /\ UNCHANGED <<cfg, sessions, delays,
                   reportedLocations,
                   orchVars, poolVars, results, wurl, attempt, wresult,
                   calls, fails, writes, lastTask, invoked>>

\* results[url] = result; resultsMux.Unlock()
WorkerStore(w) ==
    /\ wpc[w] = "store"
    /\ resultsMux = w
    /\ results' = Put(results, wurl[w], wresult[w])
    /\ writes' = Put(writes, wurl[w],
                     IF wurl[w] \in DOMAIN writes THEN writes[wurl[w]] + 1 ELSE 1)
    /\ lastTask' = Put(lastTask, wurl[w], [calls |-> calls[w], fails |-> fails[w]])
    /\ resultsMux' = 0
    /\ wpc' = [wpc EXCEPT ![w] = AfterStore(wresult[w])]
    \* url, result and the retry loop's locals go out of scope
    /\ wurl' = [wurl EXCEPT ![w] = ""]
    /\ attempt' = [attempt EXCEPT ![w] = 0]
    /\ wresult' = [wresult EXCEPT ![w] = FailureResult("")]
    /\ calls' = [calls EXCEPT ![w] = 0]
    /\ fails' = [fails EXCEPT ![w] = 0]
    /\ delays' = [delays EXCEPT ![w] = 0]
    /\ UNCHANGED <<cfg, sessions, reportedLocations,
                   orchVars, poolVars, invoked>>

\* ------------------------------------------------ runScraping, after stage 3
\* The merge loop over allRawListings.
MergeDetails ==
    /\ pc = "merge"
    /\ allRawListings' = Merge(allRawListings, results)
    /\ pc' = "save"
    /\ invoked' = invoked \cup {"Merge"}
    /\ UNCHANGED <<cfg, sessions, delays,
                   reportedLocations,
                   locations, locIdx, totalProperties, urls, savedCount,
                   stepErr, fetched, poolVars, workVars>>

\* listingService.NormalizeAndSave: an error is logged, the run goes on.
SaveListings ==
    /\ pc = "save"
    /\ \E ok \in BOOLEAN :
          /\ savedCount' = IF ok THEN Len(allRawListings) ELSE 0
          /\ stepErr' = IF ok THEN stepErr ELSE stepErr \cup {"save"}
          /\ pc' = AfterSave(ok)
    /\ invoked' = invoked \cup {"NormalizeAndSave"}
    /\ UNCHANGED <<cfg, sessions, delays,
                   reportedLocations,
                   locations, locIdx, allRawListings, totalProperties,
                   urls, fetched, poolVars, workVars>>

\* csvService.ExportToCSV: an error is logged, the run goes on.
ExportCSV ==
    /\ pc = "export"
    /\ \E ok \in BOOLEAN :
          /\ stepErr' = IF ok THEN stepErr ELSE stepErr \cup {"export"}
          /\ pc' = AfterExport(ok)
    /\ invoked' = invoked \cup {"ExportToCSV"}
    /\ UNCHANGED <<cfg, sessions, delays,
                   reportedLocations,
                   locations, locIdx, allRawListings, totalProperties,
                   urls, savedCount, fetched, poolVars, workVars>>

\* analyticsService.GetAnalytics: printed on success, logged on error.
Analytics ==
    /\ pc = "analytics"
    /\ \E ok \in BOOLEAN :
          stepErr' = IF ok THEN stepErr ELSE stepErr \cup {"analytics"}
    /\ pc' = "summary"
    /\ invoked' = invoked \cup {"GetAnalytics"}
    /\ UNCHANGED <<cfg, sessions, delays,
                   reportedLocations,
                   locations, locIdx, allRawListings, totalProperties,
                   urls, savedCount, fetched, poolVars, workVars>>

\* The final summary lines; runScraping returns.
Summary ==
    /\ pc = "summary"
    /\ pc' = "done"
    /\ reportedLocations' = LocationsReported(locations)
    /\ invoked' = invoked \cup {"Summary"}
    /\ UNCHANGED <<cfg, sessions, delays,
                   locations, locIdx, allRawListings, totalProperties,
                   urls, savedCount, stepErr, fetched, poolVars, workVars>>

\* ------------------------------------------------------------ specification
Next ==
    \/ DiscoverFatal
    \/ Discover
    \/ CollectLocation
    \/ CollectExit
    \/ BuildURLList
    \/ StartPool
    \/ SpawnWorker
    \/ SendURL
    \/ CloseChan
    \/ WaitWorkers
    \/ \E w \in WorkerIds : WorkerRecv(w)
    \/ \E w \in WorkerIds : WorkerExit(w)
    \/ \E w \in WorkerIds : BeginFetch(w)
    \/ \E w \in WorkerIds : FetchOk(w)
    \/ \E w \in WorkerIds : FetchFail(w)
    \/ \E w \in WorkerIds : RetryDelayOver(w)
    \/ \E w \in WorkerIds : WorkerLock(w)
    \/ \E w \in WorkerIds : WorkerStore(w)
    \/ MergeDetails
    \/ SaveListings
    \/ ExportCSV
    \/ Analytics
    \/ Summary

Spec == Init /\ [][Next]_vars

\* The steps of the runScraping goroutine and of worker goroutine w.
Orchestrator ==
    \/ DiscoverFatal \/ Discover \/ CollectLocation \/ CollectExit
    \/ BuildURLList \/ StartPool \/ SpawnWorker \/ SendURL \/ CloseChan
    \/ WaitWorkers \/ MergeDetails \/ SaveListings \/ ExportCSV \/ Analytics
    \/ Summary

Worker(w) ==
    \/ WorkerRecv(w) \/ WorkerExit(w) \/ BeginFetch(w) \/ FetchOk(w)
    \/ FetchFail(w) \/ RetryDelayOver(w) \/ WorkerLock(w) \/ WorkerStore(w)

\* The Go scheduler runs every runnable goroutine eventually, and every
\* fetch attempt and retry delay ends (30 s timeout, finite sleep).
FairSpec ==
    Spec /\ WF_vars(Orchestrator) /\ \A w \in WorkerIds : WF_vars(Worker(w))


\* ------------------------------------------------------------------ claims
Distinct(s) == \A i, j \in DOMAIN s : i # j => s[i] # s[j]

\* ScrapeDetailsWithWorkers has returned to runScraping.
PoolReturned ==
    /\ "ScrapeDetailsWithWorkers" \in invoked
    /\ pc \in {"merge", "save", "export", "analytics", "summary", "done"}

\* The merge loop has run.
Merged == "Merge" \in invoked

\* C1: for N distinct URLs and pool size P <= N, whatever the interleaving
\* and the fetch outcomes, the returned map has exactly one entry per input
\* URL: none missing, none extra.
C1_OneEntryPerURL ==
    (PoolReturned /\ Distinct(urls) /\ numWorkers <= Len(urls))
        => /\ DOMAIN results = Range(urls)
           /\ Cardinality(DOMAIN results) = Len(urls)

C1_Witness ==
    /\ PoolReturned
    /\ urls = <<"a", "b">>
    /\ numWorkers = 2
    /\ results["a"].Error # NoError
    /\ results["b"].Error = NoError

\* C2: once ScrapeDetailsWithWorkers has returned, every started worker has
\* exited (none is fetching, retrying, or holding the mutex), and the result
\* map never changes afterwards.
C2_JoinBarrier ==
    /\ [](PoolReturned =>
             /\ \A w \in WorkerIds : wpc[w] \in {"idle", "done"}
             /\ \A w \in 1..numWorkers : wpc[w] = "done"
             /\ resultsMux = 0)
    /\ [][PoolReturned => results' = results]_vars

C2_Witness ==
    /\ pc = "merge"
    /\ numWorkers = 3
    /\ Len(urls) = 2
    /\ \A w \in WorkerIds : wpc[w] = "done"

\* C3: with effective limit k (maxRetries, or 3 when it is not positive), a
\* task whose attempts all fail invokes ScrapeDetailPage exactly k times and
\* yields a failure result; a task whose first success is attempt j <= k
\* invokes it exactly j times and yields a success result, with no attempt
\* after the success.
C3_RetryCounts ==
    LET k == IF cfg.MaxRetries > 0 THEN cfg.MaxRetries ELSE 3 IN
    \A w \in WorkerIds :
        /\ wpc[w] \in {"lock", "store"} =>
              IF wresult[w].Error = NoError
              THEN calls[w] = fails[w] + 1 /\ calls[w] <= k
              ELSE calls[w] = k /\ fails[w] = k
        /\ wpc[w] \in {"attempt", "sleep"} =>
              calls[w] = fails[w] /\ calls[w] < k
        /\ wpc[w] = "fetching" =>
              calls[w] = fails[w] + 1 /\ calls[w] <= k

C3_Witness ==
    /\ cfg.MaxRetries = 0
    /\ \E w1, w2 \in WorkerIds :
          /\ wpc[w1] = "lock" /\ wresult[w1].Error # NoError /\ calls[w1] = 3
          /\ wpc[w2] = "lock" /\ wresult[w2].Error = NoError /\ calls[w2] = 2

\* C4: each key of the result map is written exactly once during a run,
\* also when the accumulated listings contain duplicate URLs.
C4_EachKeyWrittenOnce == \A k \in DOMAIN writes : writes[k] <= 1

\* C5: the detail task queue built from the accumulated listings holds each
\* normalized URL at most once, so no URL is fetched by more than one task.
C5_QueueDeduplicated == Distinct(urls)

\* The concatenation, in order, of the non-empty error-free results.
RECURSIVE ConcatGood(_)
ConcatGood(f) ==
    IF f = <<>> THEN <<>>
    ELSE (IF ~Head(f).err /\ Len(Head(f).listings) > 0
          THEN Head(f).listings ELSE <<>>) \o ConcatGood(Tail(f))

\* C6: a location whose ScrapeListings call fails or returns nothing is
\* skipped and the loop goes on with every remaining location; after the
\* loop the accumulated listings are the concatenation, in discovery order,
\* of the non-empty error-free results.
C6_CollectionConcat ==
    /\ pc = "collect" =>
          /\ Len(fetched) = locIdx - 1
          /\ allRawListings = ConcatGood(fetched)
    /\ (pc \in {"urls", "pool", "spawn", "send", "wait", "merge"}
        \/ (pc = "done" /\ Len(locations) > 0 /\ ~Merged)) =>
          /\ Len(fetched) = Len(locations)
          /\ allRawListings = ConcatGood(fetched)
          /\ totalProperties = Len(allRawListings)

C6_Witness ==
    /\ pc = "urls"
    /\ Len(fetched) = 2
    /\ fetched[1].err
    /\ ~fetched[2].err
    /\ Len(allRawListings) = 1
    /\ allRawListings[1].Location = 2

\* C7: when discovery returns zero locations the run ends there: no
\* collection call, detail fetch, merge, save, export or analytics step is
\* executed.
C7_AbortOnNoLocations ==
    (pc \notin {"discover", "fatal"} /\ Len(locations) = 0)
        => pc = "done" /\ invoked = {} /\ fetched = <<>>

C7_Witness == pc = "done" /\ locations = <<>> /\ invoked = {}

\* C8: a task whose attempts all fail is recorded with a non-nil Error; no
\* worker stops while tasks remain; every URL gets its entry; and an entry's
\* Error is non-nil exactly when all attempts of the task that wrote it
\* failed.
C8_FailureRecorded ==
    /\ \A u \in DOMAIN results :
          (results[u].Error # NoError) <=> (lastTask[u].fails = lastTask[u].calls)
    /\ \A w \in WorkerIds : wpc[w] = "done" => chanClosed /\ urlChan = <<>>
    /\ PoolReturned => \A u \in Range(urls) : u \in DOMAIN results

C8_Witness ==
    /\ PoolReturned
    /\ numWorkers = 1
    /\ urls = <<"a", "b">>
    /\ results["a"].Error # NoError /\ lastTask["a"].fails = 3
    /\ results["b"].Error = NoError /\ lastTask["b"].calls = 1

\* C9: after merge, a listing whose normalized URL has no entry in the
\* result map, or an entry carrying an error, still has zero bedrooms,
\* bathrooms and guests.
C9_NoDetailKeepsZero ==
    Merged =>
        \A i \in DOMAIN allRawListings :
            LET k == NormalizeURL(allRawListings[i].URL) IN
            (k \notin DOMAIN results \/ results[k].Error # NoError) =>
                /\ allRawListings[i].Bedrooms = 0
                /\ allRawListings[i].Bathrooms = 0
                /\ allRawListings[i].Guests = 0

C9_Witness ==
    /\ Merged
    /\ Len(allRawListings) = 2
    /\ allRawListings[1].URL = "a?utm=x"
    /\ results["a"].Error # NoError
    /\ allRawListings[2].URL = ""
    /\ "" \notin DOMAIN results

\* C10: after merge, every listing whose normalized URL has an error-free
\* entry in the result map has that entry's bedrooms, bathrooms and guests,
\* including each of several listings sharing one URL.
C10_DetailApplied ==
    Merged =>
        \A i \in DOMAIN allRawListings :
            LET k == NormalizeURL(allRawListings[i].URL) IN
            (k \in DOMAIN results /\ results[k].Error = NoError) =>
                /\ allRawListings[i].Bedrooms = results[k].Bedrooms
                /\ allRawListings[i].Bathrooms = results[k].Bathrooms
                /\ allRawListings[i].Guests = results[k].Guests

C10_Witness ==
    /\ Merged
    /\ Len(allRawListings) = 2
    /\ allRawListings[1].URL = "a"
    /\ allRawListings[2].URL = "a?utm=x"
    /\ results["a"].Error = NoError
    /\ allRawListings[2].Bathrooms = 1
    /\ allRawListings[2].Guests = 2


\* C11: merge is idempotent: running the merge step again on the merged
\* listings with the same detail result map gives the same listings.
C11_MergeIdempotent ==
    Merged => Merge(allRawListings, results) = allRawListings

C11_Witness ==
    /\ Merged
    /\ Len(allRawListings) = 2
    /\ allRawListings[1].URL = "a" /\ allRawListings[1].Bedrooms = 1
    /\ allRawListings[2].URL = "b" /\ results["b"].Error # NoError

\* C12 (as stated): merge never mutates its inputs: the accumulated listing
\* sequence and the detail result map are unchanged by the merge step.
C12_MergePure ==
    [][pc = "merge" => /\ allRawListings' = allRawListings
                       /\ results' = results]_vars

\* C12 (amended): merge leaves the detail result map unchanged and updates
\* the accumulated listings in place: the sequence keeps its length and
\* order, and every listing without an error-free entry is unchanged.
C12_MergeInPlace ==
    [][pc = "merge" =>
          /\ results' = results
          /\ Len(allRawListings') = Len(allRawListings)
          /\ \A i \in DOMAIN allRawListings :
                LET k == NormalizeURL(allRawListings[i].URL) IN
                /\ allRawListings'[i].URL = allRawListings[i].URL
                /\ (k \notin DOMAIN results \/ results[k].Error # NoError)
                      => allRawListings'[i] = allRawListings[i]]_vars

C12_Witness ==
    /\ Merged
    /\ Len(allRawListings) = 2
    /\ allRawListings[1].URL = "b" /\ allRawListings[1].Bedrooms = 2
    /\ allRawListings[2].URL = "" /\ allRawListings[2].Bedrooms = 0

\* C13: the number of detail fetches in progress never exceeds the
\* effective pool size (maxWorkers when positive, else 3), and exactly that
\* many workers are started, whatever the number of URLs.
C13_PoolBounded ==
    LET p == IF cfg.MaxWorkers > 0 THEN cfg.MaxWorkers ELSE 3 IN
    /\ Cardinality({w \in WorkerIds : wpc[w] = "fetching"}) <= p
    /\ Cardinality({w \in WorkerIds : wpc[w] # "idle"}) = spawned
    /\ spawned <= p
    /\ (pc \in {"send", "wait"} \/ PoolReturned) => spawned = p

C13_Witness ==
    /\ cfg.MaxWorkers = 2
    /\ Len(urls) = 2
    /\ Cardinality({w \in WorkerIds : wpc[w] = "fetching"}) = 2


\* C14: every fetch attempt runs in a session of its own that is torn down
\* when the attempt ends, whatever the outcome: a session is open only while
\* the attempt that opened it is running, a running attempt has exactly one
\* session, and none is open once ScrapeDetailsWithWorkers has returned.
C14_SessionPerAttempt ==
    /\ \A x \in sessions :
          /\ wpc[x.worker] = "fetching"
          /\ x.attempt = attempt[x.worker]
    /\ \A w \in WorkerIds :
          Cardinality({x \in sessions : x.worker = w})
              = IF wpc[w] = "fetching" THEN 1 ELSE 0
    /\ PoolReturned => sessions = {}

C14_Witness ==
    \E w1, w2 \in WorkerIds :
        /\ w1 # w2
        /\ wpc[w1] = "fetching" /\ attempt[w1] = 2
        /\ wpc[w2] = "fetching" /\ attempt[w2] = 1
        /\ sessions = {[worker |-> w1, attempt |-> 2],
                       [worker |-> w2, attempt |-> 1]}

\* C15: the number of locations the run reports as scraped equals the
\* number of locations whose collection returned a non-empty result without
\* error; skipped locations are not counted.
C15_ReportsScrapedLocations ==
    reportedLocations # -1 =>
        reportedLocations =
            Cardinality({i \in DOMAIN fetched :
                            ~fetched[i].err /\ Len(fetched[i].listings) > 0})

\* C18: the fixed delay is waited exactly between a failed attempt i and
\* attempt i+1 when i < maxRetries: every attempt after the first starts
\* after one more delay, and no delay follows a success or the last failure.
C18_DelayBetweenAttempts ==
    LET k == IF cfg.MaxRetries > 0 THEN cfg.MaxRetries ELSE 3 IN
    \A w \in WorkerIds :
        /\ wpc[w] \in {"attempt", "fetching"} => delays[w] = attempt[w] - 1
        /\ wpc[w] = "sleep" =>
              /\ delays[w] = attempt[w] - 1
              /\ fails[w] = attempt[w]
              /\ attempt[w] < k
        /\ wpc[w] \in {"lock", "store"} =>
              IF wresult[w].Error = NoError
              THEN delays[w] = calls[w] - 1 /\ delays[w] = fails[w]
              ELSE delays[w] = k - 1

C18_Witness ==
    /\ cfg.MaxRetries = 0
    /\ \E w1, w2 \in WorkerIds :
          /\ wpc[w1] = "lock" /\ wresult[w1].Error # NoError /\ delays[w1] = 2
          /\ wpc[w2] = "lock" /\ wresult[w2].Error = NoError
          /\ calls[w2] = 3 /\ delays[w2] = 2


\* C16: a failed save or export is absorbed: the export and analytics still
\* run after a failed save, the analytics after a failed export, a finished
\* run has printed its summary, the run is never stuck in these steps, and
\* the merged listings are not changed after the merge.
C16_PersistenceErrorsAbsorbed ==
    /\ [](/\ "save" \in stepErr =>
                pc \in {"export", "analytics", "summary", "done"}
          /\ "export" \in stepErr => pc \in {"analytics", "summary", "done"}
          /\ (pc = "done" /\ "NormalizeAndSave" \in invoked) =>
                {"ExportToCSV", "GetAnalytics", "Summary"} \subseteq invoked
          /\ pc = "export" => ENABLED ExportCSV
          /\ pc = "analytics" => ENABLED Analytics
          /\ pc = "summary" => ENABLED Summary)
    /\ [][Merged => allRawListings' = allRawListings]_vars

C16_Witness ==
    /\ pc = "done"
    /\ {"save", "export"} \subseteq stepErr
    /\ {"ExportToCSV", "GetAnalytics", "Summary"} \subseteq invoked
    /\ Len(allRawListings) = 1
    /\ allRawListings[1].Bedrooms = 2

\* C17: with fair scheduling and fetches that return, a call of
\* ScrapeDetailsWithWorkers eventually returns for every URL list, and no
\* worker waits on the queue forever.
C17_PoolTerminates ==
    /\ (pc = "pool") ~> (pc = "merge")
    /\ \A w \in WorkerIds : (wpc[w] = "recv") ~> (wpc[w] # "recv")

C17_Witness ==
    /\ PoolReturned
    /\ urls = <<>>
    /\ numWorkers = 3
    /\ \A w \in WorkerIds : wpc[w] = "done"

\* C19: the producer never blocks and the pool cannot deadlock: in every
\* state of the send loop the next send or the close is enabled, the channel
\* never holds more than len(urls) items, every URL has been enqueued when
\* the channel is closed, and some step is enabled in every pool state.
C19_ProducerNeverBlocks ==
    /\ pc = "send" => (ENABLED SendURL \/ ENABLED CloseChan)
    /\ Len(urlChan) <= Len(urls)
    /\ chanClosed => sendIdx = Len(urls) + 1
    /\ pc \in {"spawn", "send", "wait"} => ENABLED Next

C19_Witness ==
    /\ pc = "wait"
    /\ Len(urls) = 2
    /\ urlChan = urls
    /\ \A w \in 1..numWorkers : wpc[w] = "recv"

\* C20: when every discovered location is skipped, so that no property was
\* collected, the run ends right after the collection stage: the detail
\* pool is never started and save, export and analytics never run.
C20_AllSkippedEndsRun ==
    (/\ Len(locations) > 0
     /\ Len(fetched) = Len(locations)
     /\ \A i \in DOMAIN fetched :
           fetched[i].err \/ Len(fetched[i].listings) = 0)
        => /\ pc \in {"collect", "done"}
           /\ totalProperties = 0
           /\ invoked = {"ScrapeListings"}
           /\ spawned = 0

C20_Witness ==
    /\ pc = "done"
    /\ Len(fetched) = 2
    /\ fetched[1].err
    /\ ~fetched[2].err /\ fetched[2].listings = <<>>
    /\ invoked = {"ScrapeListings"}


\* C21: the merge step changes nothing but bedrooms, bathrooms and guests:
\* the merged sequence has the length and order of the accumulated listings
\* (duplicates are kept) and each listing's url, title, price text, rating
\* text and location are those the collection stage returned.
C21_MergeFrame ==
    Merged =>
        LET collected == ConcatGood(fetched) IN
        /\ Len(allRawListings) = Len(collected)
        /\ \A i \in DOMAIN allRawListings :
              /\ allRawListings[i].URL = collected[i].URL
              /\ allRawListings[i].Title = collected[i].Title
              /\ allRawListings[i].PriceText = collected[i].PriceText
              /\ allRawListings[i].RatingText = collected[i].RatingText
              /\ allRawListings[i].Location = collected[i].Location

C21_Witness ==
    /\ Merged
    /\ Len(allRawListings) = 2
    /\ allRawListings[1].URL = "a?utm=x" /\ allRawListings[1].Location = 1
    /\ allRawListings[2].URL = "a" /\ allRawListings[2].Location = 2
    /\ allRawListings[1].Bedrooms = 1 /\ allRawListings[2].Bedrooms = 1

====
